---- MODULE Spec2Model ----
(***************************************************************************)
(* Payment-Remainder-App: the reminder engine (due list, upcoming list,    *)
(* summary) over the spreadsheet ledgers read and written through          *)
(* ExcelManager, the reminder windows of UIHandler with the notifier, and  *)
(* the file store of FileManager.                                          *)
(*                                                                         *)
(* A ledger is an Excel file; pandas hands its cells to the program as     *)
(* loosely typed values, so a cell is modelled as a tagged value:          *)
(*   Status    "str" (text), "nan" (blank cell, float nan), "num" (a       *)
(*             number or boolean typed into the cell)                      *)
(*   Due Date  "ts" (an Excel date cell, a Timestamp/datetime), "str"      *)
(*             (text that pd.to_datetime parses to day d), "badstr" (text   *)
(*             that pd.to_datetime rejects), "nan" (blank cell or one of   *)
(*             pandas' default NA texts such as "N/A" in a text column)    *)
(*   Amount    a number                                                    *)
(*   Remarks   the text of the cell as the list of its parts, the parts    *)
(*             being joined by "; " (empty list: blank cell)               *)
(*   Email     "" (no Email column: get_payment_entries fills in ""),      *)
(*             "nan" (blank cell), or the text of the cell                 *)
(* Dates are day numbers.  A source is a file id; the city tag of the      *)
(* (file_path, city_name) tuple plays no part in the engine's decisions.   *)
(*                                                                         *)
(* A blank Due Date is float nan when the column holds text; it is truthy, *)
(* so "if not due_date" lets it through and the comparison with            *)
(* self.today raises TypeError.  (In a column of Excel dates only, the     *)
(* blank is NaT, whose comparison with a date raises the same TypeError    *)
(* in current pandas.)  No cell value of the model is falsy: pandas reads  *)
(* an empty text as nan, so the "if not due_date" branch is never taken.   *)
(* An exception inside the loop over the entries of a file is caught by    *)
(* the handler around that loop, which ends the file and keeps what the    *)
(* loop did before.                                                        *)
(***************************************************************************)
EXTENDS Integers, Sequences, FiniteSets, TLC

VARIABLES
    ledger,             \* file id -> [state, rows]: the Excel files on disk
    today,              \* ReminderEngine.today, fixed at construction
    due_payments,       \* list returned by the last get_due_payments
    upcoming_payments,  \* list returned by the last get_upcoming_payments
    summary,            \* dict returned by the last get_payment_summary
    args,               \* arguments of the last call of each operation
    pending_reminders,  \* UIHandler.pending_reminders
    reminder_windows,   \* UIHandler.reminder_windows: the entries on display
    is_configured,      \* EmailNotifier.is_configured
    update,             \* the last call of update_payment / append_log
    write,              \* the last run of mark_as_paid / reschedule_payment
    email,              \* the last run of send_payment_reminder
    filtered,           \* the result of the last filter_entries
    base_folder,        \* FileManager.base_folder: the directory on disk
    saved               \* the last call of save_excel_file

ui_vars == <<pending_reminders, reminder_windows, is_configured, update,
             write, email, filtered>>

fm_vars == <<base_folder, saved>>

vars == <<ledger, today, due_payments, upcoming_payments, summary, args,
          ui_vars, fm_vars>>

-----------------------------------------------------------------------------
(* Bounds *)

NumFiles == 2       \* ledger files on disk
MaxRows == 2        \* rows over all ledgers together
MaxDaysAhead == 2   \* largest days_ahead passed to get_upcoming_payments
MaxWindows == 2     \* reminder windows open at the same time
MaxParts == 3       \* parts of the text of a Remarks cell
MaxSaved == 3       \* files stored under the base folder

FileIds == 1..NumFiles

-----------------------------------------------------------------------------
(* Cell values *)

StrCell(s) == [kind |-> "str", s |-> s]
NaN == [kind |-> "nan", s |-> ""]
NumCell == [kind |-> "num", s |-> ""]

TsCell(d) == [kind |-> "ts", d |-> d]
DateStrCell(d) == [kind |-> "str", d |-> d]
BadStrCell == [kind |-> "badstr", d |-> 0]
NaNDate == [kind |-> "nan", d |-> 0]
Date(d) == [kind |-> "date", d |-> d]

\* str.lower() on the status texts of the model
Lower(s) ==
    CASE s = "Paid" -> "paid"
      [] s = "PAID" -> "paid"
      [] s = "Partial" -> "partial"
      [] s = "Unpaid" -> "unpaid"
      [] s = "Rescheduled" -> "rescheduled"
      [] OTHER -> s

\* pd.to_datetime(text).date(): the day, or an exception
ToDatetime(cell) ==
    IF cell.kind = "str" THEN [raised |-> FALSE, value |-> Date(cell.d)]
    ELSE [raised |-> TRUE, value |-> cell]

-----------------------------------------------------------------------------
(* ExcelManager.get_payment_entries *)

\* the 'Due Date' normalisation of one entry
NormalizeDueDate(cell) ==
    IF cell.kind \in {"str", "badstr"}              \* isinstance(.., str)
    THEN IF ToDatetime(cell).raised THEN cell         \* warning, left as text
         ELSE ToDatetime(cell).value
    ELSE IF cell.kind = "ts" THEN Date(cell.d)        \* hasattr(.., 'date')
    ELSE cell

\* "Ensure status is set": not entry['Status'] or pd.isna(entry['Status'])
NormalizeStatus(cell) ==
    IF (cell.kind = "str" /\ cell.s = "") \/ cell.kind = "nan"
    THEN StrCell("Unpaid")
    ELSE cell

\* pd.read_excel turns a blank cell, and a cell whose whole text is one of
\* its default NA texts ("N/A", "NA", "None", "null", ...), into float nan
NaTexts == {"N/A"}

\* a text of the Remarks column: typed text, or f"[{timestamp}] {log_message}"
Text(t) == [stamp |-> FALSE, text |-> t]
LogEntry(log_message) == [stamp |-> TRUE, text |-> log_message]

IsNaText(part) == ~part.stamp /\ part.text \in NaTexts

ReadRemarks(cell) ==
    IF cell = <<>> \/ (Len(cell) = 1 /\ IsNaText(cell[1]))
    THEN [kind |-> "nan", parts |-> <<>>]
    ELSE [kind |-> "str", parts |-> cell]

\* the dict of row i in df.to_dict('records'): the cells as pandas read them
Record(f, i) ==
    LET row == ledger[f].rows[i] IN
    [Status |-> row.Status,
     Due_Date |-> row.Due_Date,
     Amount |-> row.Amount,
     Remarks |-> ReadRemarks(row.Remarks),
     Email |-> row.Email]

\* the dict at position j of `entries` while the loop handles position i:
\* the entries before i are finished (file_path, row_index, normalised
\* cells), the entry at i carries file_path, the entries after i are as read
HasFilePath(j, i) == j <= i
HasRowIndex(j, i) == j < i
CellsDuring(f, j, i) ==
    IF j < i
    THEN [Record(f, j) EXCEPT !.Status = NormalizeStatus(@),
                              !.Due_Date = NormalizeDueDate(@)]
    ELSE Record(f, j)

\* dict == dict of the entries at positions j and i: the same keys, with
\* equal values
DictEqualsOnSharedKeys(f, j, i) == CellsDuring(f, j, i) = CellsDuring(f, i, i)

DictEquals(f, j, i) ==
    /\ HasFilePath(j, i) = HasFilePath(i, i)
    /\ HasRowIndex(j, i) = HasRowIndex(i, i)
    /\ CellsDuring(f, j, i) = CellsDuring(f, i, i)

\* entries.index(entry) for the entry at position i: the 0-based position
\* of the first element that is the entry itself or compares equal to it
Index(f, i) ==
    IF \E j \in 1..(i - 1) : DictEquals(f, j, i)
    THEN (CHOOSE j \in 1..(i - 1) :
              /\ DictEquals(f, j, i)
              /\ \A k \in 1..(j - 1) : ~DictEquals(f, k, i)) - 1
    ELSE i - 1

\* the loop body for the entry at position i
ReadEntry(f, i) ==
    LET entry == Record(f, i) IN
    [file_path |-> f,
     row_index |-> Index(f, i),
     Status |-> NormalizeStatus(entry.Status),
     Due_Date |-> NormalizeDueDate(entry.Due_Date),
     Amount |-> entry.Amount,
     Remarks |-> entry.Remarks,
     Email |-> entry.Email]

\* pd.read_excel fails or a required column is missing ("unreadable"): the
\* exception is logged and re-raised
get_payment_entriesUnchecked(f) ==
    [raised |-> FALSE,
     entries |-> [i \in 1..Len(ledger[f].rows) |-> ReadEntry(f, i)]]

get_payment_entries(f) ==
    IF ledger[f].state # "ok"
    THEN [raised |-> TRUE, entries |-> <<>>]
    ELSE [raised |-> FALSE,
          entries |-> [i \in 1..Len(ledger[f].rows) |-> ReadEntry(f, i)]]

\* os.path.exists(file_path)
Exists(f) == ledger[f].state # "missing"

-----------------------------------------------------------------------------
(* ExcelManager.update_payment, ExcelManager.append_log *)

\* optional arguments: None is the empty list, a value v the list <<v>>;
\* status is a text, None or "" being the empty text; remarks is None (or
\* the empty text, which "if remarks" treats alike) or a text
None == <<>>
Some(v) == <<v>>

\* "if row_index < 0 or row_index >= len(df)" raises IndexError
ValidRowIndexLax(row_index, n) == row_index <= n

ValidRowIndex(row_index, n) == ~(row_index < 0 \/ row_index >= n)

\* "Update amount and status if specified": "if amount_paid >= total_amount"
\* is a full payment, anything less a partial one
UpdateAmountStrict(row, amount_paid) ==
    IF amount_paid = None THEN row
    ELSE LET total_amount == row.Amount IN
         IF amount_paid[1] > total_amount
         THEN [row EXCEPT !.Status = StrCell("Paid"), !.Amount = 0]
         ELSE [row EXCEPT !.Status = StrCell("Partial"),
                          !.Amount = total_amount - amount_paid[1]]

UpdateAmount(row, amount_paid) ==
    IF amount_paid = None THEN row
    ELSE LET total_amount == row.Amount IN
         IF amount_paid[1] >= total_amount
         THEN [row EXCEPT !.Status = StrCell("Paid"), !.Amount = 0]
         ELSE [row EXCEPT !.Status = StrCell("Partial"),
                          !.Amount = total_amount - amount_paid[1]]

\* "Override status if explicitly specified"
UpdateStatus(row, status) ==
    IF status # "" THEN [row EXCEPT !.Status = StrCell(status)] ELSE row

\* "Update due date if specified": the cell becomes a date cell
UpdateDueDate(row, new_date) ==
    IF new_date # None THEN [row EXCEPT !.Due_Date = TsCell(new_date[1])]
    ELSE row

\* "Update remarks if specified": f"{existing_remarks}; {remarks}" when the
\* cell read is text, remarks alone when it is nan
UpdateRemarks(row, remarks) ==
    IF remarks # None
    THEN LET existing_remarks == ReadRemarks(row.Remarks) IN
         IF existing_remarks.kind = "str"
         THEN [row EXCEPT !.Remarks = existing_remarks.parts \o <<remarks[1]>>]
         ELSE [row EXCEPT !.Remarks = <<remarks[1]>>]
    ELSE row

\* a row of the frame pd.read_excel returns, as df.to_excel will write it
\* back: a cell that was read as nan is written as a blank cell
ReadRow(row) ==
    IF ReadRemarks(row.Remarks).kind = "nan" THEN [row EXCEPT !.Remarks = <<>>]
    ELSE row

\* the value returned and the rows of the file afterwards.  io_ok: pandas
\* could open the file, set the cells and write the file back (a file open
\* in Excel, a read-only file or a full disk make it raise).  remarks is
\* None or the text to add
update_payment(f, row_index, amount_paid, status, new_date, remarks, io_ok) ==
    LET df == [i \in 1..Len(ledger[f].rows) |-> ReadRow(ledger[f].rows[i])]
        failed == [result |-> FALSE, rows |-> ledger[f].rows]
    IN  IF ledger[f].state # "ok" THEN failed          \* pd.read_excel raises
        ELSE IF ~ValidRowIndex(row_index, Len(df)) THEN failed
        ELSE IF ~io_ok THEN failed
        ELSE LET row == UpdateRemarks(
                            UpdateDueDate(
                                UpdateStatus(
                                    UpdateAmount(df[row_index + 1],
                                                 amount_paid),
                                    status),
                                new_date),
                            remarks)
             IN  [result |-> TRUE,
                  rows |-> [df EXCEPT ![row_index + 1] = row]]

append_log(f, row_index, log_message, io_ok) ==
    update_payment(f, row_index, None, "", None,
                   Some(LogEntry(log_message)), io_ok)

-----------------------------------------------------------------------------
(* ReminderEngine.get_due_payments *)

PriorityOffByOne(days_overdue) ==
    IF days_overdue >= 30 THEN "High"
    ELSE IF days_overdue >= 7 THEN "Medium"
    ELSE "Low"

Priority(days_overdue) ==
    IF days_overdue > 30 THEN "High"
    ELSE IF days_overdue > 7 THEN "Medium"
    ELSE "Low"

IsDueFromTomorrow(due_date) == due_date <= today + 1

IsDue(due_date) == due_date <= today

\* the body of the loop over entries for one entry: the entry is appended,
\* skipped (continue), or an exception leaves the loop
DueStep(entry) ==
    IF entry.Status.kind # "str" THEN "raise"         \* .lower() on a number
    ELSE IF Lower(entry.Status.s) = "paid" THEN "skip"
    ELSE IF entry.Due_Date.kind = "badstr" THEN "skip" \* to_datetime fails
    ELSE IF entry.Due_Date.kind = "nan" THEN "raise"  \* nan <= date: TypeError
    ELSE IF IsDue(entry.Due_Date.d) THEN "append"
    ELSE "skip"

DueRecord(entry) ==
    LET days_overdue == today - entry.Due_Date.d IN
    [file_path |-> entry.file_path,
     row_index |-> entry.row_index,
     Status |-> entry.Status,
     Due_Date |-> entry.Due_Date,
     Amount |-> entry.Amount,
     Remarks |-> entry.Remarks,
     Email |-> entry.Email,
     days_overdue |-> days_overdue,
     priority |-> Priority(days_overdue)]

\* loop over the entries of one file from position i; the per-file handler
\* catches the exception and keeps what was appended before it
RECURSIVE DueScan(_, _, _)
DueScan(entries, i, acc) ==
    IF i > Len(entries) THEN acc
    ELSE LET step == DueStep(entries[i]) IN
         IF step = "raise" THEN acc
         ELSE IF step = "append"
              THEN DueScan(entries, i + 1, Append(acc, DueRecord(entries[i])))
              ELSE DueScan(entries, i + 1, acc)

RECURSIVE DueCollect(_, _, _)
DueCollect(sources, k, acc) ==
    IF k > Len(sources) THEN acc
    ELSE LET f == sources[k] IN
         IF ~Exists(f) THEN DueCollect(sources, k + 1, acc)
         ELSE LET r == get_payment_entries(f) IN
              IF r.raised THEN DueCollect(sources, k + 1, acc)
              ELSE DueCollect(sources, k + 1, DueScan(r.entries, 1, acc))

\* list.sort(key=days_overdue, reverse=True) is stable: an element goes
\* behind every element whose key is greater or equal
InsertDueUnstable(sorted, x) ==
    LET pos == Cardinality({j \in 1..Len(sorted) :
                               sorted[j].days_overdue > x.days_overdue}) IN
    SubSeq(sorted, 1, pos) \o <<x>> \o SubSeq(sorted, pos + 1, Len(sorted))

InsertDue(sorted, x) ==
    LET pos == Cardinality({j \in 1..Len(sorted) :
                               sorted[j].days_overdue >= x.days_overdue}) IN
    SubSeq(sorted, 1, pos) \o <<x>> \o SubSeq(sorted, pos + 1, Len(sorted))

RECURSIVE SortDue(_, _, _)
SortDue(list, i, sorted) ==
    IF i > Len(list) THEN sorted
    ELSE SortDue(list, i + 1, InsertDue(sorted, list[i]))

get_due_payments(sources) == SortDue(DueCollect(sources, 1, <<>>), 1, <<>>)

-----------------------------------------------------------------------------
(* ReminderEngine.get_upcoming_payments *)

IsUpcomingInclusive(due_date, future_date) ==
    today <= due_date /\ due_date <= future_date

IsUpcoming(due_date, future_date) ==
    today < due_date /\ due_date <= future_date

UpcomingStep(entry, future_date) ==
    IF entry.Status.kind # "str" THEN "raise"
    ELSE IF Lower(entry.Status.s) = "paid" THEN "skip"
    ELSE IF entry.Due_Date.kind = "badstr" THEN "skip"
    ELSE IF entry.Due_Date.kind = "nan" THEN "raise"  \* date < nan: TypeError
    ELSE IF IsUpcoming(entry.Due_Date.d, future_date) THEN "append"
    ELSE "skip"

UpcomingRecord(entry) ==
    [file_path |-> entry.file_path,
     row_index |-> entry.row_index,
     Status |-> entry.Status,
     Due_Date |-> entry.Due_Date,
     Amount |-> entry.Amount,
     Remarks |-> entry.Remarks,
     Email |-> entry.Email,
     days_until_due |-> entry.Due_Date.d - today]

RECURSIVE UpcomingScan(_, _, _, _)
UpcomingScan(entries, i, future_date, acc) ==
    IF i > Len(entries) THEN acc
    ELSE LET step == UpcomingStep(entries[i], future_date) IN
         IF step = "raise" THEN acc
         ELSE IF step = "append"
              THEN UpcomingScan(entries, i + 1, future_date,
                                Append(acc, UpcomingRecord(entries[i])))
              ELSE UpcomingScan(entries, i + 1, future_date, acc)

RECURSIVE UpcomingCollect(_, _, _, _)
UpcomingCollect(sources, k, future_date, acc) ==
    IF k > Len(sources) THEN acc
    ELSE LET f == sources[k] IN
         IF ~Exists(f) THEN UpcomingCollect(sources, k + 1, future_date, acc)
         ELSE LET r == get_payment_entries(f) IN
              IF r.raised
              THEN UpcomingCollect(sources, k + 1, future_date, acc)
              ELSE UpcomingCollect(sources, k + 1, future_date,
                                   UpcomingScan(r.entries, 1, future_date, acc))

\* list.sort(key=entry['Due Date']): ascending and stable
InsertUpcomingUnstable(sorted, x) ==
    LET pos == Cardinality({j \in 1..Len(sorted) :
                               sorted[j].Due_Date.d < x.Due_Date.d}) IN
    SubSeq(sorted, 1, pos) \o <<x>> \o SubSeq(sorted, pos + 1, Len(sorted))

InsertUpcoming(sorted, x) ==
    LET pos == Cardinality({j \in 1..Len(sorted) :
                               sorted[j].Due_Date.d <= x.Due_Date.d}) IN
    SubSeq(sorted, 1, pos) \o <<x>> \o SubSeq(sorted, pos + 1, Len(sorted))

RECURSIVE SortUpcoming(_, _, _)
SortUpcoming(list, i, sorted) ==
    IF i > Len(list) THEN sorted
    ELSE SortUpcoming(list, i + 1, InsertUpcoming(sorted, list[i]))

get_upcoming_payments(sources, days_ahead) ==
    SortUpcoming(UpcomingCollect(sources, 1, today + days_ahead, <<>>), 1, <<>>)

-----------------------------------------------------------------------------
(* ReminderEngine.get_payment_summary *)

EmptySummary ==
    [total_payments |-> 0, paid_payments |-> 0, partial_payments |-> 0,
     unpaid_payments |-> 0, overdue_payments |-> 0, due_today |-> 0,
     upcoming_payments |-> 0, total_amount_due |-> 0]

\* summary[counter] += 1
BumpAssign(s, counter) == [s EXCEPT ![counter] = 1]

Bump(s, counter) == [s EXCEPT ![counter] = @ + 1]

\* float(entry.get('Amount', 0)) of a numeric cell
Float(amount) == amount

\* summary['total_amount_due'] += float(entry.get('Amount', 0))
AddAmountDue(s, entry) ==
    [s EXCEPT !.total_amount_due = @ + Float(entry.Amount)]

\* the status branch of the loop body (the entry's status is text here)
StatusBranch(s, status, entry) ==
    IF status = "paid" THEN Bump(s, "paid_payments")
    ELSE IF status = "partial"
         THEN AddAmountDue(Bump(s, "partial_payments"), entry)
         ELSE AddAmountDue(Bump(s, "unpaid_payments"), entry)

\* "Check date status"
DateBranch(s, status, due_date) ==
    IF due_date < today /\ status # "paid" THEN Bump(s, "overdue_payments")
    ELSE IF due_date = today /\ status # "paid" THEN Bump(s, "due_today")
    ELSE IF due_date > today /\ status # "paid"
         THEN Bump(s, "upcoming_payments")
         ELSE s

\* the loop body for one entry: the summary after it, and whether an
\* exception left the loop (the counters already updated are kept)
SummaryStep(s, entry) ==
    LET s1 == Bump(s, "total_payments") IN
    IF entry.Status.kind # "str"                       \* .lower() on a number
    THEN [raised |-> TRUE, summary |-> s1]
    ELSE LET status == Lower(entry.Status.s)
             s2 == StatusBranch(s1, status, entry) IN
         IF entry.Due_Date.kind = "badstr"             \* to_datetime fails
         THEN [raised |-> FALSE, summary |-> s2]
         ELSE IF entry.Due_Date.kind = "nan"           \* nan < date: TypeError
              THEN [raised |-> TRUE, summary |-> s2]
              ELSE [raised |-> FALSE,
                    summary |-> DateBranch(s2, status, entry.Due_Date.d)]

RECURSIVE SummaryScan(_, _, _)
SummaryScan(entries, i, s) ==
    IF i > Len(entries) THEN s
    ELSE LET step == SummaryStep(s, entries[i]) IN
         IF step.raised THEN step.summary
         ELSE SummaryScan(entries, i + 1, step.summary)

RECURSIVE SummaryCollect(_, _, _)
SummaryCollect(sources, k, s) ==
    IF k > Len(sources) THEN s
    ELSE LET f == sources[k] IN
         IF ~Exists(f) THEN SummaryCollect(sources, k + 1, s)
         ELSE LET r == get_payment_entries(f) IN
              IF r.raised THEN SummaryCollect(sources, k + 1, s)
              ELSE SummaryCollect(sources, k + 1, SummaryScan(r.entries, 1, s))

get_payment_summary(sources) == SummaryCollect(sources, 1, EmptySummary)

-----------------------------------------------------------------------------
(* EmailNotifier *)

NoneCell == [kind |-> "none", s |-> ""]

\* '@' in to_email, for the addresses of the model
HasAt(s) ==
    CASE s = "ann@example.org" -> TRUE
      [] OTHER -> FALSE

\* bool(value) of a cell: None and "" are false, float nan is true
Truthy(cell) == ~(cell.kind = "none" \/ (cell.kind = "str" /\ cell.s = ""))

\* "Validate recipient email": not to_email or '@' not in to_email; the
\* membership test on a float raises TypeError
Recipient(to_email) ==
    IF ~Truthy(to_email) THEN "invalid"
    ELSE IF to_email.kind # "str" THEN "raise"
    ELSE IF ~HasAt(to_email.s) THEN "invalid"
    ELSE "valid"

\* send_email: "sent" (True), "not_sent" (False) or "raised".  smtp_ok: the
\* SMTP dialogue (connect, starttls, login, sendmail) went through
send_email(to_email, smtp_ok) ==
    IF ~is_configured THEN "not_sent"
    ELSE IF Recipient(to_email) = "invalid" THEN "not_sent"
    ELSE IF Recipient(to_email) = "raise" THEN "raised"
    ELSE IF smtp_ok THEN "sent"
    ELSE "not_sent"

\* send_payment_reminder has no recipient parameter and passes to_email=None
send_payment_reminder(smtp_ok) == send_email(NoneCell, smtp_ok)

-----------------------------------------------------------------------------
(* UIHandler *)

\* filter_entries with no search term and city "All": the status filter
KeepsStatus(entry, status_filter) ==
    IF status_filter # "All"
    THEN IF status_filter = "Paid" /\ entry.Status # StrCell("Paid") THEN FALSE
         ELSE IF status_filter = "Unpaid" /\ entry.Status = StrCell("Paid")
              THEN FALSE
              ELSE TRUE
    ELSE TRUE

RECURSIVE filter_entries(_, _)
filter_entries(entries, status_filter) ==
    IF entries = <<>> THEN <<>>
    ELSE IF KeepsStatus(Head(entries), status_filter)
         THEN <<Head(entries)>> \o filter_entries(Tail(entries), status_filter)
         ELSE filter_entries(Tail(entries), status_filter)

\* "Send email notification if email is present and email notifier is
\* enabled": main.py always hands an EmailNotifier object to the UI.  The
\* result of update_payment plays no part
Notifies(entry, updated) == Truthy(entry.Email)

\* the try/except around send_email prints the exception and goes on
SendEscapesWhenRaised(send) == send = "raised"

SendEscapes(send) == FALSE

\* close_reminder_window
CloseWindow(windows, w) ==
    SubSeq(windows, 1, w - 1) \o SubSeq(windows, w + 1, Len(windows))

\* show_next_reminder: the windows and the queue after it
ShowNext(windows, pending) ==
    IF pending = <<>> THEN [windows |-> windows, pending |-> pending]
    ELSE [windows |-> Append(windows, Head(pending)),
          pending |-> Tail(pending)]

NoWrite == [called |-> FALSE, op |-> "", file_path |-> 0, row_index |-> 0,
            new_date |-> None, updated |-> FALSE, notified |-> FALSE,
            send |-> "none", error |-> FALSE, closed |-> FALSE,
            shown_next |-> FALSE]

\* what mark_as_paid and reschedule_payment do after update_payment
\* returned u for the entry of window w: the notification, then
\* close_reminder_window and show_next_reminder (update_list_view in between
\* redraws the list and catches its own exceptions).  An exception that
\* escapes the notification ends in "Failed to ..." with the window left open
AfterUpdate(op, w, new_date, u, smtp_ok) ==
    LET entry == reminder_windows[w]
        notified == Notifies(entry, u.result)
        send == IF notified THEN send_email(entry.Email, smtp_ok) ELSE "none"
        escaped == SendEscapes(send)
        next == ShowNext(CloseWindow(reminder_windows, w), pending_reminders)
    IN  /\ ledger' = [ledger EXCEPT ![entry.file_path].rows = u.rows]
        /\ reminder_windows' =
               IF escaped THEN reminder_windows ELSE next.windows
        /\ pending_reminders' =
               IF escaped THEN pending_reminders ELSE next.pending
        /\ write' = [called |-> TRUE, op |-> op,
                     file_path |-> entry.file_path,
                     row_index |-> entry.row_index,
                     new_date |-> new_date,
                     updated |-> u.result,
                     notified |-> notified,
                     send |-> send,
                     error |-> escaped,
                     closed |-> ~escaped,
                     shown_next |-> ~escaped /\ pending_reminders # <<>>]

-----------------------------------------------------------------------------
(* FileManager *)

\* a file name is base name, timestamp and extension; a stored file is a
\* name in a city folder; a source file is a name that may not exist
FileExtensions == {".xlsx", ".xls", ".XLSX", ".csv"}
Cities == {"Pune", "Goa"}
Timestamps == {"20240105_101500", "20240105_101501"}

\* str.lower() on the extensions of the model
LowerExtension(file_extension) ==
    CASE file_extension = ".XLSX" -> ".xlsx"
      [] OTHER -> file_extension

\* "Check file extension": file_extension.lower() in ['.xls', '.xlsx']
IsExcelExtension(file_extension) ==
    LowerExtension(file_extension) \in {".xls", ".xlsx"}

\* filename.endswith(('.xlsx', '.xls'))
EndsWithExcel(filename) == filename.ext \in {".xlsx", ".xls"}

\* os.path.join(city_folder, f"{base_name}_{timestamp}{ext}")
TargetPath(source_file_path, city_name, timestamp) ==
    [city |-> city_name, base |-> source_file_path.base,
     timestamp |-> timestamp, ext |-> source_file_path.ext]

\* the base folder after _ensure_base_folder_exists: no city folder yet
EmptyFolder == [dirs |-> {}, files |-> {}]

NoPath == [city |-> "", base |-> "", timestamp |-> "", ext |-> ""]

\* save_excel_file: the path returned or an exception, and the base folder
\* afterwards.  The city folder is made before the copy; copy_ok: shutil.copy2
\* went through
save_excel_file(source_file_path, city_name, timestamp, copy_ok) ==
    LET failed == [raised |-> TRUE, path |-> NoPath, folder |-> base_folder]
        target_path == TargetPath(source_file_path, city_name, timestamp)
        dirs == base_folder.dirs \cup {city_name}
    IN  IF ~source_file_path.exists THEN failed      \* FileNotFoundError
        ELSE IF ~IsExcelExtension(source_file_path.ext) THEN failed
        ELSE IF ~copy_ok
             THEN [failed EXCEPT !.folder = [base_folder EXCEPT !.dirs = dirs]]
             ELSE [raised |-> FALSE, path |-> target_path,
                   folder |-> [dirs |-> dirs,
                               files |-> base_folder.files
                                             \cup {target_path}]]

\* list_all_files: the (file_path, city_name) tuples over all city folders.
\* The order of the list is that of os.listdir, which is arbitrary; the
\* model keeps the set of its elements
list_all_files ==
    {<<file_path, file_path.city>> :
        file_path \in {p \in base_folder.files :
                          p.city \in base_folder.dirs /\ EndsWithExcel(p)}}

\* get_city_files: the file paths of one city folder
get_city_files(city_name) ==
    IF city_name \notin base_folder.dirs THEN {}
    ELSE {p \in base_folder.files : p.city = city_name /\ EndsWithExcel(p)}

NoSave == [called |-> FALSE, ext |-> "", city_name |-> "", raised |-> FALSE,
           path |-> NoPath]

-----------------------------------------------------------------------------
(* State machine *)

\* the list of (file_path, city_name) the callers pass: what
\* FileManager.list_all_files() returned, every ledger file in listing order
AllFiles == [k \in 1..NumFiles |-> k]

NoArgs == [due |-> [called |-> FALSE, sources |-> <<>>],
           upcoming |-> [called |-> FALSE, sources |-> <<>>, days_ahead |-> 0],
           summary |-> [called |-> FALSE, sources |-> <<>>]]

FileStates == {"ok", "missing", "unreadable"}

\* the rows of file f when the rows `flat` are dealt to the files in order
FileRows(flat, owner, f) ==
    LET mine == {i \in DOMAIN flat : owner[i] = f}
        before == Cardinality({i \in DOMAIN flat : owner[i] < f}) IN
    [k \in 1..Cardinality(mine) |-> flat[before + k]]

\* the files on disk when the engine is constructed: any ledgers over the
\* given cell values with at most MaxRows rows; a file that cannot be read
\* has no rows the program could see
NoUpdate == [called |-> FALSE, file_path |-> 0, row_index |-> 0,
             amount_paid |-> None, status |-> "", new_date |-> None,
             remarks |-> None, io_ok |-> FALSE, result |-> FALSE]

NoEmail == [called |-> FALSE, smtp_ok |-> FALSE, result |-> "none"]

NoFilter == [called |-> FALSE, file_path |-> 0, status_filter |-> "All",
             entries |-> <<>>]

\* nothing was called yet; the notifier was configured from the environment
\* variables (Configured: the cases to cover)
InitCalls(Configured) ==
    /\ due_payments = <<>>
    /\ upcoming_payments = <<>>
    /\ summary = EmptySummary
    /\ args = NoArgs
    /\ pending_reminders = <<>>
    /\ reminder_windows = <<>>
    /\ is_configured \in Configured
    /\ update = NoUpdate
    /\ write = NoWrite
    /\ email = NoEmail
    /\ filtered = NoFilter
    /\ base_folder = EmptyFolder
    /\ saved = NoSave

\* the files on disk when the program starts: any ledgers over the rows
\* Rows with at most MaxRows rows, each file in one of the states States; a
\* file that cannot be read has no rows the program could see
InitFiles(Rows, Todays, Configured, States) ==
    /\ today \in Todays
    /\ \E n \in 0..MaxRows :
         \E owner \in [1..n -> FileIds] :
           /\ \A i, j \in 1..n : i < j => owner[i] <= owner[j]
           /\ \E st \in [FileIds -> States] :
                /\ \A i \in 1..n : st[owner[i]] = "ok"
                /\ \E flat \in [1..n -> Rows] :
                     ledger = [f \in FileIds |->
                                 [state |-> st[f],
                                  rows |-> FileRows(flat, owner, f)]]
    /\ InitCalls(Configured)

InitRows(Rows, Todays, Configured) ==
    InitFiles(Rows, Todays, Configured, FileStates)

\* ledgers without Email column and with blank Remarks, notifier not
\* configured
InitWith(Statuses, DueCells, Amounts, Todays) ==
    InitRows([Status : Statuses, Due_Date : DueCells, Amount : Amounts,
              Remarks : {<<>>}, Email : {StrCell("")}],
             Todays, {FALSE})

GetDuePayments(sources) ==
    /\ due_payments' = get_due_payments(sources)
    /\ args' = [args EXCEPT !.due = [called |-> TRUE, sources |-> sources]]
    /\ UNCHANGED <<ledger, today, upcoming_payments, summary, ui_vars,
                   fm_vars>>

GetUpcomingPayments(sources, days_ahead) ==
    /\ upcoming_payments' = get_upcoming_payments(sources, days_ahead)
    /\ args' = [args EXCEPT !.upcoming = [called |-> TRUE, sources |-> sources,
                                          days_ahead |-> days_ahead]]
    /\ UNCHANGED <<ledger, today, due_payments, summary, ui_vars,
                   fm_vars>>

GetPaymentSummary(sources) ==
    /\ summary' = get_payment_summary(sources)
    /\ args' = [args EXCEPT !.summary = [called |-> TRUE, sources |-> sources]]
    /\ UNCHANGED <<ledger, today, due_payments, upcoming_payments, ui_vars,
                   fm_vars>>

\* the Remarks cell of the row has room for one more part
RoomForRemark(f, row_index) ==
    row_index + 1 \in DOMAIN ledger[f].rows =>
        Len(ledger[f].rows[row_index + 1].Remarks) < MaxParts

UpdatePayment(f, row_index, amount_paid, status, new_date, remarks, io_ok) ==
    /\ remarks # None => RoomForRemark(f, row_index)
    /\ LET u == update_payment(f, row_index, amount_paid, status, new_date,
                               remarks, io_ok)
       IN  /\ ledger' = [ledger EXCEPT ![f].rows = u.rows]
           /\ update' = [called |-> TRUE, file_path |-> f,
                         row_index |-> row_index,
                         amount_paid |-> amount_paid, status |-> status,
                         new_date |-> new_date, remarks |-> remarks,
                         io_ok |-> io_ok, result |-> u.result]
    /\ UNCHANGED <<today, due_payments, upcoming_payments, summary, args,
                   pending_reminders, reminder_windows, is_configured, write,
                   email, filtered,
                   fm_vars>>

AppendLog(f, row_index, log_message, io_ok) ==
    /\ RoomForRemark(f, row_index)
    /\ LET u == append_log(f, row_index, log_message, io_ok)
       IN  /\ ledger' = [ledger EXCEPT ![f].rows = u.rows]
           /\ update' = [called |-> TRUE, file_path |-> f,
                         row_index |-> row_index,
                         amount_paid |-> None, status |-> "",
                         new_date |-> None,
                         remarks |-> Some(LogEntry(log_message)),
                         io_ok |-> io_ok, result |-> u.result]
    /\ UNCHANGED <<today, due_payments, upcoming_payments, summary, args,
                   pending_reminders, reminder_windows, is_configured, write,
                   email, filtered,
                   fm_vars>>

\* check_due_payments: "No due or overdue payments found" leaves the queue
\* alone; otherwise the due list becomes the queue and its head is shown
CheckDuePayments ==
    /\ Len(reminder_windows) < MaxWindows
    /\ LET due == get_due_payments(AllFiles)
           next == ShowNext(reminder_windows, due)
       IN  /\ due_payments' = due
           /\ args' = [args EXCEPT !.due = [called |-> TRUE,
                                            sources |-> AllFiles]]
           /\ reminder_windows' = next.windows
           /\ pending_reminders' =
                  IF due = <<>> THEN pending_reminders ELSE next.pending
    /\ UNCHANGED <<ledger, today, upcoming_payments, summary, is_configured,
                   update, write, email, filtered,
                   fm_vars>>

\* check_due_payments_on_startup, which initialize_modules runs once before
\* the main loop: nothing with no files or no due payments; otherwise the
\* user is asked (response) and on yes the due list becomes the queue and
\* its head is shown.  The reminder is an ordinary window beside the main
\* window, whose buttons stay usable
CheckDuePaymentsOnStartup(response) ==
    /\ ~args.due.called /\ ~write.called /\ reminder_windows = <<>>
    /\ LET due == IF AllFiles = <<>> THEN <<>>
                  ELSE get_due_payments(AllFiles)
           next == ShowNext(reminder_windows, due)
           shown == due # <<>> /\ response
       IN  /\ due_payments' = due
           /\ args' = [args EXCEPT !.due = [called |-> TRUE,
                                            sources |-> AllFiles]]
           /\ reminder_windows' =
                  IF shown THEN next.windows ELSE reminder_windows
           /\ pending_reminders' =
                  IF shown THEN next.pending ELSE pending_reminders
    /\ UNCHANGED <<ledger, today, upcoming_payments, summary, is_configured,
                   update, write, email, filtered, fm_vars>>

\* the "Mark as Paid" button of window w.  amount_paid: None when float()
\* rejects the text of the amount field ("Please enter a valid amount")
MarkAsPaid(w, amount_paid, io_ok, smtp_ok) ==
    /\ w \in DOMAIN reminder_windows
    /\ LET entry == reminder_windows[w] IN
       IF amount_paid = None
       THEN /\ write' = [NoWrite EXCEPT !.called = TRUE,
                                        !.op = "mark_as_paid",
                                        !.file_path = entry.file_path,
                                        !.row_index = entry.row_index,
                                        !.error = TRUE]
            /\ UNCHANGED <<ledger, reminder_windows, pending_reminders>>
       ELSE AfterUpdate("mark_as_paid", w, None,
                        update_payment(entry.file_path, entry.row_index,
                                       amount_paid, "Paid", None, None, io_ok),
                        smtp_ok)
    /\ UNCHANGED <<today, due_payments, upcoming_payments, summary, args,
                   is_configured, update, email, filtered,
                   fm_vars>>

\* the "Reschedule Payment" button of window w.  remark: None when the
\* remark field is empty
ReschedulePayment(w, new_date, remark, io_ok, smtp_ok) ==
    /\ w \in DOMAIN reminder_windows
    /\ LET entry == reminder_windows[w] IN
       /\ remark # None => RoomForRemark(entry.file_path, entry.row_index)
       /\ AfterUpdate("reschedule_payment", w, Some(new_date),
                      update_payment(entry.file_path, entry.row_index,
                                     Some(entry.Amount), "Rescheduled",
                                     Some(new_date), remark, io_ok),
                      smtp_ok)
    /\ UNCHANGED <<today, due_payments, upcoming_payments, summary, args,
                   is_configured, update, email, filtered,
                   fm_vars>>

SendPaymentReminder(smtp_ok) ==
    /\ email' = [called |-> TRUE, smtp_ok |-> smtp_ok,
                 result |-> send_payment_reminder(smtp_ok)]
    /\ UNCHANGED <<ledger, today, due_payments, upcoming_payments, summary,
                   args, pending_reminders, reminder_windows, is_configured,
                   update, write, filtered,
                   fm_vars>>

\* filter_entries over the entries read from file f
FilterEntries(f, status_filter) ==
    /\ ~get_payment_entries(f).raised
    /\ filtered' = [called |-> TRUE, file_path |-> f,
                    status_filter |-> status_filter,
                    entries |-> filter_entries(get_payment_entries(f).entries,
                                               status_filter)]
    /\ UNCHANGED <<ledger, today, due_payments, upcoming_payments, summary,
                   args, pending_reminders, reminder_windows, is_configured,
                   update, write, email,
                   fm_vars>>

\* the upload of a file: save_excel_file into the city folder
SaveExcelFile(source_file_path, city_name, timestamp, copy_ok) ==
    /\ Cardinality(base_folder.files) < MaxSaved
    /\ LET r == save_excel_file(source_file_path, city_name, timestamp,
                                copy_ok)
       IN  /\ base_folder' = r.folder
           /\ saved' = [called |-> TRUE, ext |-> source_file_path.ext,
                        city_name |-> city_name, raised |-> r.raised,
                        path |-> r.path]
    /\ UNCHANGED <<ledger, today, due_payments, upcoming_payments, summary,
                   args, ui_vars>>

-----------------------------------------------------------------------------
(* Specifications *)

Todays == {31, 32}
DaysAhead == 0..MaxDaysAhead

CallDue == GetDuePayments(AllFiles)
CallUpcoming == \E days_ahead \in DaysAhead :
                    GetUpcomingPayments(AllFiles, days_ahead)
CallSummary == GetPaymentSummary(AllFiles)

\* get_due_payments over ledgers whose due dates lie 30/31, 7/8 and 0/1 days
\* before today and 1/0 days after it
DueStatuses == {NaN, StrCell("Paid"), StrCell("PAID")}
DueDueCells == {TsCell(1), TsCell(24), DateStrCell(31), TsCell(32),
                BadStrCell, NaNDate}
InitDue == InitWith(DueStatuses, DueDueCells, {100}, Todays)
NextDue == CallDue
SpecDue == InitDue /\ [][NextDue]_vars

\* get_upcoming_payments over ledgers whose due dates lie 0 to 3 days after
\* today
UpcomingStatuses == {NaN, StrCell("Paid")}
UpcomingDueCells == {TsCell(32), DateStrCell(33), TsCell(34), BadStrCell,
                     NaNDate}
InitUpcoming == InitWith(UpcomingStatuses, UpcomingDueCells, {100}, Todays)
NextUpcoming == CallUpcoming
SpecUpcoming == InitUpcoming /\ [][NextUpcoming]_vars

\* get_payment_summary over ledgers with due dates on both sides of today
\* and two amounts
SummaryStatuses == {NaN, StrCell("PAID"), StrCell("Partial")}
SummaryDueCells == {TsCell(31), DateStrCell(32), NaNDate}
InitSummary == InitWith(SummaryStatuses, SummaryDueCells, {100, 250}, Todays)
NextSummary == CallSummary
SpecSummary == InitSummary /\ [][NextSummary]_vars

\* get_payment_summary over ledgers with every kind of status cell
StatusStatuses == {NaN, StrCell("Paid"), StrCell("Partial"),
                   StrCell("Rescheduled"), NumCell}
StatusDueCells == {TsCell(31), BadStrCell}
InitStatus == InitWith(StatusStatuses, StatusDueCells, {100}, Todays)
SpecStatus == InitStatus /\ [][NextSummary]_vars

\* the three operations over ledgers of which some cannot be read although
\* they hold rows (a sheet without one of the required columns)
SourceStatuses == {NaN, StrCell("Paid")}
SourceDueCells == {TsCell(31), DateStrCell(32)}
InitSources ==
    /\ today \in {31}
    /\ \E n \in 0..MaxRows :
         \E owner \in [1..n -> FileIds] :
           /\ \A i, j \in 1..n : i < j => owner[i] <= owner[j]
           /\ \E st \in [FileIds -> FileStates] :
                /\ \A i \in 1..n : st[owner[i]] # "missing"
                /\ \E flat \in [1..n -> [Status : SourceStatuses,
                                         Due_Date : SourceDueCells,
                                         Amount : {100},
                                         Remarks : {<<>>},
                                         Email : {StrCell("")}]] :
                     ledger = [f \in FileIds |->
                                 [state |-> st[f],
                                  rows |-> FileRows(flat, owner, f)]]
    /\ InitCalls({FALSE})
NextSources == CallDue \/ CallUpcoming \/ CallSummary
SpecSources == InitSources /\ [][NextSources]_vars

\* the reminder windows and their two buttons, over ledgers with an Email
\* column: a blank cell, an address, text without '@'; the user checks for
\* due payments when no reminder is open
EmailCells == {NaN, StrCell("ann@example.org"), StrCell("nobody")}
Flags == {TRUE, FALSE}
NewDates == {33}
CallCheck == CheckDuePayments
CallCheckIdle == reminder_windows = <<>> /\ CheckDuePayments
CallMarkAsPaid ==
    \E w \in 1..MaxWindows, io_ok \in Flags, smtp_ok \in Flags :
        MarkAsPaid(w, Some(100), io_ok, smtp_ok)
CallReschedule ==
    \E w \in 1..MaxWindows, new_date \in NewDates,
       io_ok \in Flags, smtp_ok \in Flags :
        ReschedulePayment(w, new_date, None, io_ok, smtp_ok)
InitWrite ==
    InitFiles([Status : {NaN}, Due_Date : {TsCell(31)}, Amount : {100},
               Remarks : {<<>>}, Email : EmailCells],
              {31}, Flags, {"ok"})
NextWrite == CallCheckIdle \/ CallMarkAsPaid \/ CallReschedule
SpecWrite == InitWrite /\ [][NextWrite]_vars

\* the same buttons over ledgers with identical rows, due and not due, in a
\* program without configured notifier
InitLocate ==
    InitFiles([Status : {NaN, StrCell("Paid")},
               Due_Date : {TsCell(31), BadStrCell}, Amount : {100},
               Remarks : {<<>>}, Email : {StrCell("")}],
              {31}, {FALSE}, {"ok"})
NextLocate == CallCheckIdle \/ CallMarkAsPaid \/ CallReschedule
SpecLocate == InitLocate /\ [][NextLocate]_vars

\* the same buttons over ledgers with Paid rows and rows without due date;
\* the new dates lie 1 to 3 days after today
LaterDates == {32, 33, 34}
CallRescheduleLater ==
    \E w \in 1..MaxWindows, new_date \in LaterDates, io_ok \in Flags :
        ReschedulePayment(w, new_date, None, io_ok, TRUE)
CallMarkAsPaidAny ==
    \E w \in 1..MaxWindows, amount_paid \in {None, Some(100)},
       io_ok \in Flags :
        MarkAsPaid(w, amount_paid, io_ok, TRUE)
InitReread ==
    InitRows([Status : {NaN, StrCell("Paid")},
              Due_Date : {TsCell(31), NaNDate}, Amount : {100},
              Remarks : {<<>>}, Email : {StrCell("")}],
             {31}, {FALSE})
NextReread == CallCheck \/ CallMarkAsPaidAny \/ CallRescheduleLater
SpecReread == InitReread /\ [][NextReread]_vars

\* the startup check, the Check Due Payments button at any time and the two
\* buttons of the reminders, over ledgers whose rows fell due today or a
\* week ago
CallStartup == \E response \in Flags : CheckDuePaymentsOnStartup(response)
InitQueue ==
    InitRows([Status : {NaN, StrCell("Paid")},
              Due_Date : {TsCell(24), TsCell(31)}, Amount : {100},
              Remarks : {<<>>}, Email : {StrCell("")}],
             {31}, {FALSE})
NextQueue ==
    CallStartup \/ CallCheck \/ CallMarkAsPaidAny \/ CallRescheduleLater
SpecQueue == InitQueue /\ [][NextQueue]_vars

\* update_payment called with any row index, on files that can and cannot
\* be read
RowIndexes == (0 - 1)..MaxRows
CallUpdate ==
    \E f \in FileIds, row_index \in RowIndexes, io_ok \in Flags :
        UpdatePayment(f, row_index, None, "Paid", None, None, io_ok)
InitUpdate ==
    InitFiles([Status : {NaN}, Due_Date : {TsCell(31)}, Amount : {100},
               Remarks : {<<>>}, Email : {StrCell("")}],
              {31}, {FALSE}, {"ok", "unreadable"})
NextUpdate == CallUpdate
SpecUpdate == InitUpdate /\ [][NextUpdate]_vars

\* update_payment with an amount and no status: part payments, the exact
\* amount and more than the amount, on rows that owe 100
PaidAmounts == {40, 100}
CallPay ==
    \E f \in FileIds, row_index \in 0..(MaxRows - 1),
       amount_paid \in PaidAmounts, io_ok \in Flags :
        UpdatePayment(f, row_index, Some(amount_paid), "", None, None, io_ok)
InitPay ==
    InitFiles([Status : {NaN}, Due_Date : {TsCell(31)}, Amount : {100},
               Remarks : {<<>>}, Email : {StrCell("")}],
              {31}, {FALSE}, {"ok"})
NextPay == CallPay
SpecPay == InitPay /\ [][NextPay]_vars

\* the two buttons with part payments, full payments and remarks, over
\* ledgers whose rows owe 100 or are Paid with nothing left to pay
CallMarkAsPaidPart ==
    \E w \in 1..MaxWindows, amount_paid \in PaidAmounts, io_ok \in Flags :
        MarkAsPaid(w, Some(amount_paid), io_ok, TRUE)
CallRescheduleRemark ==
    \E w \in 1..MaxWindows, new_date \in NewDates,
       remark \in {None, Some(Text("promised"))}, io_ok \in Flags :
        ReschedulePayment(w, new_date, remark, io_ok, TRUE)
InitSettle ==
    InitFiles([Status : {NaN}, Due_Date : {TsCell(31)}, Amount : {100},
               Remarks : {<<>>}, Email : {StrCell("")}]
                  \cup [Status : {StrCell("Paid")}, Due_Date : {TsCell(31)},
                        Amount : {0}, Remarks : {<<>>},
                        Email : {StrCell("")}],
              {31}, {FALSE}, {"ok"})
NextSettle == CallCheckIdle \/ CallMarkAsPaidPart \/ CallRescheduleRemark
SpecSettle == InitSettle /\ [][NextSettle]_vars

\* update_payment with remarks and append_log on rows with and without
\* remarks
RemarkTexts == {Text("N/A"), Text("promised")}
CallRemark ==
    \E f \in FileIds, row_index \in 0..(MaxRows - 1),
       remarks \in RemarkTexts :
        UpdatePayment(f, row_index, None, "", None, Some(remarks), TRUE)
CallLog ==
    \E f \in FileIds, row_index \in 0..(MaxRows - 1) :
        AppendLog(f, row_index, "called", TRUE)
InitRemarks ==
    InitRows([Status : {NaN}, Due_Date : {TsCell(31)}, Amount : {100},
              Remarks : {<<>>, <<Text("first")>>}, Email : {StrCell("")}],
             {31}, {FALSE})
NextRemarks == CallRemark \/ CallLog
SpecRemarks == InitRemarks /\ [][NextRemarks]_vars

\* update_payment with any choice of status, due date and remarks, on
\* ledgers in which a Remarks cell may hold the text "N/A"
CallFrame ==
    \E f \in FileIds, row_index \in 0..(MaxRows - 1),
       status \in {"", "Paid"}, new_date \in {None, Some(33)},
       remarks \in {None, Some(Text("promised"))} :
        UpdatePayment(f, row_index, None, status, new_date, remarks, TRUE)
InitFrame ==
    InitRows([Status : {NaN}, Due_Date : {TsCell(31)}, Amount : {100},
              Remarks : {<<>>, <<Text("N/A")>>}, Email : {StrCell("")}],
             {31}, {FALSE})
NextFrame == CallFrame
SpecFrame == InitFrame /\ [][NextFrame]_vars

\* uploads of source files with every kind of extension into two cities
SourceFiles == [exists : BOOLEAN, base : {"ledger"}, ext : FileExtensions]
CallSave ==
    \E source_file_path \in SourceFiles, city_name \in Cities,
       timestamp \in Timestamps, copy_ok \in Flags :
        SaveExcelFile(source_file_path, city_name, timestamp, copy_ok)
InitSave == InitWith({NaN}, {TsCell(31)}, {100}, {31})
NextSave == CallSave
SpecSave == InitSave /\ [][NextSave]_vars

\* send_payment_reminder, notifier configured or not
CallReminder == \E smtp_ok \in Flags : SendPaymentReminder(smtp_ok)
InitReminder ==
    InitRows([Status : {NaN}, Due_Date : {TsCell(31), DateStrCell(32)},
              Amount : {100, 250}, Remarks : {<<>>},
              Email : {StrCell("ann@example.org")}],
             Todays, Flags)
NextReminder == CallReminder
SpecReminder == InitReminder /\ [][NextReminder]_vars

\* the status filter of the list view over ledgers with every kind of
\* status text
FilterStatuses == {NaN, StrCell("Paid"), StrCell("PAID"),
                   StrCell("Rescheduled")}
StatusFilters == {"All", "Paid", "Unpaid"}
CallFilter ==
    \E f \in FileIds, status_filter \in StatusFilters :
        FilterEntries(f, status_filter)
InitFilter == InitWith(FilterStatuses, {TsCell(31)}, {100}, Todays)
NextFilter == CallFilter \/ CallSummary
SpecFilter == InitFilter /\ [][NextFilter]_vars

\* the three operations over the same ledgers
Statuses == {NaN, StrCell("Paid")}
DueCells == {TsCell(31), DateStrCell(32), NaNDate}
Init == InitWith(Statuses, DueCells, {100}, Todays)
Next == CallDue \/ CallUpcoming \/ CallSummary
Spec == Init /\ [][Next]_vars

-----------------------------------------------------------------------------
(* What the claims say about a ledger row, read off the cells themselves *)

Range(seq) == {seq[i] : i \in DOMAIN seq}

\* the rows of the files in `sources` that can be read, as <<file, position>>
RowsRead(sources) ==
    {<<f, i>> : f \in {g \in Range(sources) : ledger[g].state = "ok"},
                i \in 1..MaxRows} \cap
    {p \in FileIds \X (1..MaxRows) : p[2] <= Len(ledger[p[1]].rows)}

RowAt(p) == ledger[p[1]].rows[p[2]]

\* status Paid, compared case-insensitively
RowIsPaid(row) == row.Status.kind = "str" /\ Lower(row.Status.s) = "paid"

\* the due date is present and can be interpreted as a date
RowHasDate(row) == row.Due_Date.kind \in {"ts", "str"}

RowKey(r) == <<r.file_path, r.row_index + 1>>

\* position of a record in the input: source order, then row order
PosIn(sources, f) == CHOOSE k \in DOMAIN sources : sources[k] = f

InputBefore(sources, a, b) ==
    \/ PosIn(sources, a.file_path) < PosIn(sources, b.file_path)
    \/ a.file_path = b.file_path /\ a.row_index < b.row_index

RECURSIVE SumAmounts(_)
SumAmounts(rows) ==
    IF rows = {} THEN 0
    ELSE LET p == CHOOSE q \in rows : TRUE IN
         RowAt(p).Amount + SumAmounts(rows \ {p})

Counters == DOMAIN EmptySummary

\* the list `sources` without the source f
RECURSIVE Without(_, _)
Without(sources, f) ==
    IF sources = <<>> THEN <<>>
    ELSE IF Head(sources) = f THEN Without(Tail(sources), f)
         ELSE <<Head(sources)>> \o Without(Tail(sources), f)

\* the source cannot be read: it does not exist, cannot be opened or lacks
\* a required column
Failing(f) == ledger[f].state # "ok"

\* the due date of the row is absent or cannot be interpreted as a date
RowIsBad(row) == ~RowHasDate(row)

Keys(records) == {RowKey(r) : r \in Range(records)}

\* the ledger row the last mark_as_paid / reschedule_payment was about
WrittenKey == <<write.file_path, write.row_index + 1>>

\* the notification send failed: not configured, invalid recipient, SMTP
\* error, or an exception inside send_email
SendFailed(send) == send \in {"not_sent", "raised"}

\* the summary over the ledger of row p counts the row, and as paid
SummaryCountsPaid(p) ==
    /\ get_payment_summary(<<p[1]>>).total_payments >= p[2]
    /\ RowIsPaid(RowAt(p))

\* the reminders still to be resolved: the one on display, then the queue
Unresolved == reminder_windows \o pending_reminders

\* the entry points at an existing row whose cells are the entry's cells
LocatesItsRow(entry) ==
    LET p == RowKey(entry) IN
    /\ p[2] \in DOMAIN ledger[p[1]].rows
    /\ entry.Status = NormalizeStatus(RowAt(p).Status)
    /\ entry.Due_Date = NormalizeDueDate(RowAt(p).Due_Date)
    /\ entry.Amount = RowAt(p).Amount

IsPrefix(a, b) == Len(a) <= Len(b) /\ SubSeq(b, 1, Len(a)) = a

AddSummaries(a, b) == [c \in Counters |-> a[c] + b[c]]

-----------------------------------------------------------------------------
(* Claims *)

\* C1: a ledger record is in the result of get_due_payments if and only if
\* its status is not Paid, its due date is present and parseable and
\* due_date <= today; each returned record has days_overdue = today - due_date
C1_DueIffNotPaidAndDue ==
    args.due.called =>
        /\ {RowKey(r) : r \in Range(due_payments)} =
               {p \in RowsRead(args.due.sources) :
                    /\ ~RowIsPaid(RowAt(p))
                    /\ RowHasDate(RowAt(p))
                    /\ RowAt(p).Due_Date.d <= today}
        /\ \A r \in Range(due_payments) :
               r.days_overdue = today - RowAt(RowKey(r)).Due_Date.d

\* C2: every record of the due list is High exactly when days_overdue > 30,
\* Medium exactly when 8 <= days_overdue <= 30 and Low exactly when
\* 0 <= days_overdue <= 7
C2_PriorityBoundaries ==
    \A r \in Range(due_payments) :
        /\ r.priority = "High" <=> r.days_overdue > 30
        /\ r.priority = "Medium" <=> (8 <= r.days_overdue /\ r.days_overdue <= 30)
        /\ r.priority = "Low" <=> (0 <= r.days_overdue /\ r.days_overdue <= 7)

C2_Witness ==
    /\ \E r \in Range(due_payments) : r.days_overdue = 31 /\ r.priority = "High"
    /\ \E r \in Range(due_payments) : r.days_overdue = 8 /\ r.priority = "Medium"

\* C3: the due list is sorted by days_overdue descending, and records with
\* equal days_overdue are in input order (source order, then row order)
C3_DueSortedStable ==
    args.due.called =>
        \A i, j \in DOMAIN due_payments :
            i < j =>
                /\ due_payments[i].days_overdue >= due_payments[j].days_overdue
                /\ due_payments[i].days_overdue = due_payments[j].days_overdue
                     => InputBefore(args.due.sources,
                                    due_payments[i], due_payments[j])

C3_Witness ==
    /\ args.due.called
    /\ Len(due_payments) >= 2
    /\ due_payments[1].days_overdue = due_payments[2].days_overdue
    /\ due_payments[1].file_path = due_payments[2].file_path

\* C4: a ledger record is in the result of get_upcoming_payments if and only
\* if its status is not Paid, its due date is present and parseable and
\* today < due_date <= today + days_ahead; each returned record has
\* days_until_due = due_date - today
C4_UpcomingIffNotPaidAndInHorizon ==
    args.upcoming.called =>
        /\ {RowKey(r) : r \in Range(upcoming_payments)} =
               {p \in RowsRead(args.upcoming.sources) :
                    /\ ~RowIsPaid(RowAt(p))
                    /\ RowHasDate(RowAt(p))
                    /\ today < RowAt(p).Due_Date.d
                    /\ RowAt(p).Due_Date.d <= today + args.upcoming.days_ahead}
        /\ \A r \in Range(upcoming_payments) :
               r.days_until_due = RowAt(RowKey(r)).Due_Date.d - today

\* C5: the upcoming list is sorted by due date ascending, and records with
\* the same due date are in input order (source order, then row order)
C5_UpcomingSortedStable ==
    args.upcoming.called =>
        \A i, j \in DOMAIN upcoming_payments :
            i < j =>
                /\ upcoming_payments[i].Due_Date.d <= upcoming_payments[j].Due_Date.d
                /\ upcoming_payments[i].Due_Date.d = upcoming_payments[j].Due_Date.d
                     => InputBefore(args.upcoming.sources,
                                    upcoming_payments[i], upcoming_payments[j])

C5_Witness ==
    /\ args.upcoming.called
    /\ Len(upcoming_payments) >= 2
    /\ upcoming_payments[1].Due_Date.d = upcoming_payments[2].Due_Date.d
    /\ upcoming_payments[1].file_path = upcoming_payments[2].file_path

\* C6: no ledger row is both in the result of get_due_payments and in the
\* result of get_upcoming_payments, whatever the horizon
C6_DueUpcomingExclusive ==
    {RowKey(r) : r \in Range(due_payments)} \cap
        {RowKey(r) : r \in Range(upcoming_payments)} = {}

C6_Witness ==
    /\ args.due.called /\ args.upcoming.called
    /\ \E r \in Range(due_payments) : r.days_overdue = 0
    /\ upcoming_payments # <<>>

\* C7: every record read is counted in total_payments and in exactly one of
\* paid_payments, partial_payments, unpaid_payments, so
\* total_payments = paid_payments + partial_payments + unpaid_payments
C7_TotalIsSumOfStatusCounters ==
    args.summary.called =>
        summary.total_payments =
            summary.paid_payments + summary.partial_payments
                + summary.unpaid_payments

\* C8: overdue_payments, due_today and upcoming_payments count the non-Paid
\* records with due_date < today, = today and > today; a record without a
\* usable due date is in none of them but is counted by status and amount
C8_DateBuckets ==
    args.summary.called =>
        LET read == RowsRead(args.summary.sources)
            dated == {p \in read : ~RowIsPaid(RowAt(p)) /\ RowHasDate(RowAt(p))}
        IN  /\ summary.overdue_payments =
                   Cardinality({p \in dated : RowAt(p).Due_Date.d < today})
            /\ summary.due_today =
                   Cardinality({p \in dated : RowAt(p).Due_Date.d = today})
            /\ summary.upcoming_payments =
                   Cardinality({p \in dated : RowAt(p).Due_Date.d > today})
            /\ summary.paid_payments =
                   Cardinality({p \in read : RowIsPaid(RowAt(p))})
            /\ summary.partial_payments + summary.unpaid_payments =
                   Cardinality({p \in read : ~RowIsPaid(RowAt(p))})

\* C9: total_amount_due is the sum of the remaining amount over all records
\* whose status is not Paid, case-insensitively, with or without a due date
C9_AmountDueIsSumOverNotPaid ==
    args.summary.called =>
        summary.total_amount_due =
            SumAmounts({p \in RowsRead(args.summary.sources) :
                            ~RowIsPaid(RowAt(p))})

C11_FailingSourceSkipped ==
    \A f \in FileIds :
        Failing(f) =>
            /\ args.due.called =>
                   due_payments =
                       get_due_payments(Without(args.due.sources, f))
            /\ args.upcoming.called =>
                   upcoming_payments =
                       get_upcoming_payments(Without(args.upcoming.sources, f),
                                             args.upcoming.days_ahead)
            /\ args.summary.called =>
                   summary =
                       get_payment_summary(Without(args.summary.sources, f))

C11_Witness ==
    /\ args.due.called /\ args.upcoming.called /\ args.summary.called
    /\ \E f, g \in FileIds :
         /\ ledger[f].state = "unreadable" /\ ledger[f].rows # <<>>
         /\ ledger[g].state = "ok"
         /\ f < g
    /\ due_payments # <<>>
    /\ summary.total_payments > 0

\* C12: a record whose due date is absent or cannot be interpreted is
\* skipped on its own: every other record of the same source is still in the
\* due list when it is not Paid and due, in the upcoming list when it is not
\* Paid and within the horizon, and in its date bucket of the summary
C12_BadRecordSkippedAlone ==
    LET Others(sources) ==
            {p \in RowsRead(sources) :
                /\ ~RowIsPaid(RowAt(p)) /\ RowHasDate(RowAt(p))
                /\ \E q \in RowsRead(sources) :
                       q[1] = p[1] /\ q # p /\ RowIsBad(RowAt(q))}
    IN  /\ args.due.called =>
               \A p \in Others(args.due.sources) :
                   RowAt(p).Due_Date.d <= today
                       => p \in {RowKey(r) : r \in Range(due_payments)}
        /\ args.upcoming.called =>
               \A p \in Others(args.upcoming.sources) :
                   (/\ today < RowAt(p).Due_Date.d
                    /\ RowAt(p).Due_Date.d <= today + args.upcoming.days_ahead)
                       => p \in {RowKey(r) : r \in Range(upcoming_payments)}
        /\ args.summary.called =>
               summary.overdue_payments + summary.due_today
                       + summary.upcoming_payments
                   >= Cardinality(Others(args.summary.sources))

\* C13: in mark_as_paid and reschedule_payment a notification is sent for
\* an entry only after the ledger update of that entry has succeeded; when
\* update_payment reports failure no notification is sent
C13_NotifyOnlyAfterUpdate ==
    (write.called /\ write.send = "sent") => write.updated

\* C14: when the notification send fails during mark_as_paid or
\* reschedule_payment, the ledger update already applied is kept, no error
\* is raised to the caller, and the write path goes on as on success: the
\* reminder window is closed and the next reminder is shown
C14_SendFailureIgnored ==
    [][(/\ CallMarkAsPaid \/ CallReschedule
        /\ write'.notified /\ SendFailed(write'.send))
       => /\ ~write'.error
          /\ \E w \in DOMAIN reminder_windows :
                /\ RowKey(reminder_windows[w]) =
                       <<write'.file_path, write'.row_index + 1>>
                /\ reminder_windows' =
                       ShowNext(CloseWindow(reminder_windows, w),
                                pending_reminders).windows
                /\ pending_reminders' =
                       ShowNext(CloseWindow(reminder_windows, w),
                                pending_reminders).pending
          /\ write'.updated =>
                LET row == ledger'[write'.file_path].rows[write'.row_index + 1]
                IN  IF write'.op = "mark_as_paid"
                    THEN row.Status = StrCell("Paid")
                    ELSE /\ row.Status = StrCell("Rescheduled")
                         /\ row.Due_Date = TsCell(write'.new_date[1])
      ]_vars

C14_Witness ==
    /\ write.called /\ write.updated /\ write.notified
    /\ write.send = "raised"
    /\ write.closed /\ write.shown_next
    /\ RowAt(WrittenKey).Status = StrCell("Paid")

\* C15: update_payment never raises; when the row index is negative or not
\* less than the number of rows, or the ledger cannot be read, it returns
\* False and leaves the ledger unchanged; it returns True only when the
\* update was written
C15_UpdateFailsCleanly ==
    [][LET f == update'.file_path
           i == update'.row_index
           rows == ledger[f].rows
       IN  /\ update'.called
           /\ (i < 0 \/ i >= Len(rows) \/ ledger[f].state # "ok")
                 => ~update'.result
           /\ ~update'.result => ledger' = ledger
           /\ update'.result =>
                 /\ update'.io_ok
                 /\ ledger'[f].rows[i + 1].Status = StrCell(update'.status)
      ]_vars

C15_Witness ==
    /\ update.called /\ ~update.result /\ update.io_ok
    /\ ledger[update.file_path].state = "ok"
    /\ ledger[update.file_path].rows # <<>>
    /\ update.row_index = Len(ledger[update.file_path].rows)

\* C16: remarks are append-only: a successful update_payment or append_log
\* with a non-empty remark r leaves the row's Remarks equal to the remarks
\* before it followed by r, and the remarks of every row before a step are
\* a prefix of its remarks after it
C16_RemarksAppendOnly ==
    [][/\ \A f \in FileIds : \A i \in DOMAIN ledger[f].rows :
              IsPrefix(ledger[f].rows[i].Remarks, ledger'[f].rows[i].Remarks)
       /\ (update'.called /\ update'.result /\ update'.remarks # None) =>
              ledger'[update'.file_path].rows[update'.row_index + 1].Remarks =
                  ledger[update'.file_path].rows[update'.row_index + 1].Remarks
                      \o update'.remarks
      ]_vars

\* C17: the same record is treated as Paid or not Paid identically by the
\* reminder engine, which compares the status case-insensitively and counts
\* every other status as unpaid, and by the status filter of the list: the
\* filter "Paid" shows exactly the records the engine treats as Paid, the
\* filter "Unpaid" exactly the others
C17_PaidSameEverywhere ==
    /\ (filtered.called /\ filtered.status_filter # "All") =>
           LET f == filtered.file_path
               shown == {e.row_index + 1 : e \in Range(filtered.entries)}
               paid == {i \in DOMAIN ledger[f].rows :
                           RowIsPaid(ledger[f].rows[i])}
           IN  IF filtered.status_filter = "Paid" THEN shown = paid
               ELSE shown = (DOMAIN ledger[f].rows) \ paid
    /\ args.summary.called =>
           LET read == RowsRead(args.summary.sources) IN
           /\ summary.paid_payments =
                  Cardinality({p \in read : RowIsPaid(RowAt(p))})
           /\ summary.unpaid_payments =
                  Cardinality({p \in read : ~RowIsPaid(RowAt(p))})

\* C18: after a successful mark-as-paid of a due record the next
\* get_due_payments does not contain it and the next summary counts it as
\* paid; after a successful reschedule to a date d > today the next
\* get_due_payments does not contain it and the next get_upcoming_payments
\* contains it exactly when d <= today + horizon
C18_WritesSeenByNextRead ==
    (write.called /\ write.updated) =>
        /\ write.op = "mark_as_paid" =>
               /\ WrittenKey \notin Keys(get_due_payments(AllFiles))
               /\ SummaryCountsPaid(WrittenKey)
        /\ (write.op = "reschedule_payment" /\ write.new_date[1] > today) =>
               /\ WrittenKey \notin Keys(get_due_payments(AllFiles))
               /\ \A days_ahead \in DaysAhead :
                      WrittenKey \in
                          Keys(get_upcoming_payments(AllFiles, days_ahead))
                      <=> write.new_date[1] <= today + days_ahead

\* C19: every record of the due list has days_overdue >= 0, every record of
\* the upcoming list has days_until_due >= 0, and no record carries both
C19_DaysNonNegativeNeverBoth ==
    /\ \A r \in Range(due_payments) :
           /\ "days_overdue" \in DOMAIN r /\ r.days_overdue >= 0
           /\ "days_until_due" \notin DOMAIN r
    /\ \A r \in Range(upcoming_payments) :
           /\ "days_until_due" \in DOMAIN r /\ r.days_until_due >= 0
           /\ "days_overdue" \notin DOMAIN r

C19_Witness ==
    /\ args.due.called /\ args.upcoming.called
    /\ \E r \in Range(due_payments) : r.days_overdue = 0
    /\ \E r \in Range(upcoming_payments) : r.days_until_due = 1

\* C20: send_payment_reminder returns True whenever the notifier is
\* configured and the SMTP delivery succeeds
C20_ReminderSentWhenConfigured ==
    (email.called /\ is_configured /\ email.smtp_ok) => email.result = "sent"

\* C21: update_payment with amount_paid and no explicit status sets the row
\* to status Paid with remaining amount 0 when amount_paid >= the remaining
\* amount, and to status Partial with the remaining amount reduced by
\* exactly amount_paid when amount_paid is less
C21_AmountSetsStatus ==
    [][(/\ update'.called /\ update'.result
        /\ update'.amount_paid # None /\ update'.status = "")
       => LET old == ledger[update'.file_path].rows[update'.row_index + 1]
              new == ledger'[update'.file_path].rows[update'.row_index + 1]
              paid == update'.amount_paid[1]
          IN  IF paid >= old.Amount
              THEN new.Status = StrCell("Paid") /\ new.Amount = 0
              ELSE /\ new.Status = StrCell("Partial")
                   /\ new.Amount = old.Amount - paid
      ]_vars

\* a payment of 100 has settled one row while a part payment of 40 has left
\* another row Partial with 60 remaining
C21_Witness ==
    /\ update.called /\ update.result
    /\ update.amount_paid = Some(100) /\ update.status = ""
    /\ \E f \in FileIds : \E i \in DOMAIN ledger[f].rows :
          /\ ledger[f].rows[i].Status = StrCell("Partial")
          /\ ledger[f].rows[i].Amount = 60
    /\ ledger[update.file_path].rows[update.row_index + 1].Status
           = StrCell("Paid")
    /\ ledger[update.file_path].rows[update.row_index + 1].Amount = 0

\* C22: a successful update_payment on (ledger, row_index) changes only the
\* targeted row of that ledger: every other row and every other ledger is
\* unchanged, the number and order of rows is unchanged, and the fields of
\* the target row that were not passed keep their previous values
C22_UpdateTouchesOnlyTarget ==
    [][(update'.called /\ update'.result)
       => LET f == update'.file_path
              i == update'.row_index + 1
              old == ledger[f].rows
              new == ledger'[f].rows
          IN  /\ \A g \in FileIds \ {f} : ledger'[g] = ledger[g]
              /\ ledger'[f].state = ledger[f].state
              /\ Len(new) = Len(old)
              /\ \A j \in DOMAIN old : j # i => new[j] = old[j]
              /\ (update'.amount_paid = None /\ update'.status = "")
                     => new[i].Status = old[i].Status
              /\ update'.amount_paid = None => new[i].Amount = old[i].Amount
              /\ update'.new_date = None => new[i].Due_Date = old[i].Due_Date
              /\ update'.remarks = None => new[i].Remarks = old[i].Remarks
              /\ new[i].Email = old[i].Email
      ]_vars

\* C23: every Excel file accepted and stored by save_excel_file (any source
\* whose extension is .xls or .xlsx in any letter case) is afterwards
\* returned by list_all_files as (stored path, city) and by
\* get_city_files(city)
C23_StoredFilesAreListed ==
    /\ \A p \in base_folder.files :
           /\ <<p, p.city>> \in list_all_files
           /\ p \in get_city_files(p.city)
    /\ (saved.called /\ ~saved.raised) =>
           /\ IsExcelExtension(saved.ext)
           /\ saved.path \in base_folder.files

\* C24: in every ledger state reachable through the UI write paths
\* (mark-as-paid with any accepted amount, reschedule) from a ledger where it
\* holds, a row has status Paid if and only if its remaining amount is 0
C24_PaidIffNothingRemains ==
    \A f \in FileIds : \A i \in DOMAIN ledger[f].rows :
        RowIsPaid(ledger[f].rows[i]) <=> ledger[f].rows[i].Amount = 0

\* C25: rescheduling a payment through reschedule_payment changes only the
\* row's due date, status (to Rescheduled) and remarks; the remaining amount
\* is the same after the reschedule as before, so the rescheduled debt still
\* contributes its amount to total_amount_due
C25_RescheduleKeepsAmount ==
    [][(CallRescheduleRemark /\ write'.updated)
       => LET f == write'.file_path
              i == write'.row_index + 1
              old == ledger[f].rows[i]
              new == ledger'[f].rows[i]
          IN  /\ new.Status = StrCell("Rescheduled")
              /\ new.Due_Date = TsCell(write'.new_date[1])
              /\ new.Amount = old.Amount
              /\ new.Email = old.Email
              /\ get_payment_summary(AllFiles).total_amount_due' =
                     get_payment_summary(AllFiles).total_amount_due
      ]_vars

\* C26: after check_due_payments or the startup check finds n due payments,
\* the reminders are presented one at a time in due-list order, each due
\* payment exactly once, the next one only after the current one was
\* resolved by mark-as-paid or reschedule; once n reminders are resolved the
\* queue is empty and no window is open.  (A check hands over the whole due
\* list with its head on display, and every resolution removes the head of
\* what is left and displays the next, so n resolutions leave nothing.)
C26_RemindersOneAtATime ==
    [][/\ Len(reminder_windows') <= 1
       /\ ((CallStartup \/ CallCheck) /\ reminder_windows' # reminder_windows)
             => /\ reminder_windows = <<>>
                /\ Unresolved' = due_payments'
                /\ Len(reminder_windows') = 1
       /\ ((CallMarkAsPaidAny \/ CallRescheduleLater) /\ write'.closed)
             => /\ RowKey(Head(Unresolved)) =
                       <<write'.file_path, write'.row_index + 1>>
                /\ Unresolved' = Tail(Unresolved)
                /\ Len(reminder_windows') =
                       (IF Unresolved' = <<>> THEN 0 ELSE 1)
      ]_vars

\* C27: under any interleaving of the UI events Check Due Payments, Mark as
\* Paid and Reschedule Payment, at most one reminder window is open for a
\* given ledger row at any time
C27_OneWindowPerRow ==
    \A v, w \in DOMAIN reminder_windows :
        v # w => RowKey(reminder_windows[v]) # RowKey(reminder_windows[w])

\* C28: every entry returned by get_payment_entries carries the file_path
\* it was read from and a row_index equal to its 0-based position in that
\* ledger, also when the ledger contains identical rows, so that the
\* update_payment issued later from a reminder modifies exactly the row the
\* reminder was generated from (no operation inserts, removes or reorders
\* rows)
C28_RowIndexLocatesRow ==
    /\ [](/\ \A f \in FileIds :
               LET r == get_payment_entries(f) IN
               ~r.raised =>
                   \A i \in DOMAIN r.entries :
                       /\ r.entries[i].file_path = f
                       /\ r.entries[i].row_index = i - 1
          /\ \A entry \in Range(Unresolved) : LocatesItsRow(entry))
    /\ [][((CallMarkAsPaid \/ CallReschedule) /\ write'.updated)
          => \E w \in DOMAIN reminder_windows :
                LET p == RowKey(reminder_windows[w]) IN
                /\ p = <<write'.file_path, write'.row_index + 1>>
                /\ ledger'[p[1]].rows[p[2]] # ledger[p[1]].rows[p[2]]
                /\ \A f \in FileIds :
                       /\ Len(ledger'[f].rows) = Len(ledger[f].rows)
                       /\ \A i \in DOMAIN ledger[f].rows :
                              <<f, i>> # p
                                  => ledger'[f].rows[i] = ledger[f].rows[i]
         ]_vars

\* of two identical due rows of one ledger the second was marked as paid
\* from its reminder while the first is as it was
C28_Witness ==
    /\ write.called /\ write.updated /\ write.op = "mark_as_paid"
    /\ write.row_index = 1
    /\ LET rows == ledger[write.file_path].rows IN
       /\ rows[2].Status = StrCell("Paid")
       /\ rows[1].Status = NaN
       /\ rows[1].Due_Date = rows[2].Due_Date
       /\ rows[1].Amount = 100

\* C29: for the same sources read in the same ledger state, the number of
\* records returned by get_due_payments equals overdue_payments + due_today
\* of get_payment_summary, and the number of records returned by
\* get_upcoming_payments for any horizon is at most upcoming_payments
C29_ListsAgreeWithSummary ==
    (/\ args.due.called /\ args.summary.called
     /\ args.due.sources = args.summary.sources)
        => /\ Len(due_payments) =
                  summary.overdue_payments + summary.due_today
           /\ \A days_ahead \in DaysAhead :
                  Len(get_upcoming_payments(args.summary.sources, days_ahead))
                      <= summary.upcoming_payments

====
